---- MODULE Spec2Model ----
(***************************************************************************)
(* Orchestration core of the phased multi-agent analysis pipeline:         *)
(* submission API, Celery workflow (chords and chains), Blackboard,        *)
(* status store, Orchestrator Judge and query cache.                       *)
(*                                                                         *)
(* One task is followed from submission to its end.  The Redis content     *)
(* left by earlier runs (the query cache) is drawn in Init.                *)
(***************************************************************************)
EXTENDS Integers, Sequences, FiniteSets, Bags, TLC

\* An absent record-valued key is the empty sequence, a present one <<value>>.
None == <<>>
Some(v) == <<v>>
Val(x) == x[1]

\* An absent text value.
Nil == "nil"

Agents == {"query", "media", "insight"}

\* Fan-out groups dispatched by the workflow, in pipeline order.
Groups == {"plan", "research", "supplement", "report"}

(***************************************************************************)
(* Bounds of the model.                                                    *)
(***************************************************************************)
\* Longest Judge LLM reply, in lines.
MaxReplyLines == 2

\* Faults the environment injects into one run: an agent capability that
\* raises or times out, an agent payload without state_dict, a Blackboard
\* error inside a Judge task, a worker lost while it runs the research Judge
\* (SpecRedelivery).
MaxFaults == 1

(***************************************************************************)
(* Queries.  A query is written as the word list jieba.lcut gives for it.  *)
(***************************************************************************)
QA == <<"ev", "market", "2025", "analysis", "trend">>
QB == <<"ev", "market", "2025", "analysis">>
\* A query of which one word is a token, and one of stop words and single
\* characters only: its token set is empty.
QC == <<"ev", "de", "x", "le", "zai">>
QE == <<"de", "x", "le", "zai">>
\* QA with its words in another order: another query with the same tokens.
QD == <<"market", "ev", "2025", "analysis", "trend">>

\* A query of exactly 500 characters, and one of 501.
QLimit == <<"analysis", "w496">>
QOver == <<"analysis", "w496", "x">>

Queries == {QA, QB, QC, QD, QE, QLimit}

\* A string of a request: text, the word list of what it says, with pad
\* whitespace characters around it.
Str(pad, text) == [pad |-> pad, text |-> text]

\* The request bodies of the runs followed here.
Submitted == {<<[query |-> Str(0, QA)]>>}

\* The stop words, romanised: de, le, zai, shi, ... (one character each in the
\* source), yige, meiyou, ziji (two characters each).
stopwords == {"de", "le", "zai", "shi", "yige", "meiyou", "ziji"}

\* len(w) of the words of the vocabulary, in characters of the source text.
WordLen(w) == IF w \in {"de", "le", "zai", "shi", "x"} THEN 1
              ELSE IF w \in {"ev", "yige", "meiyou", "ziji"} THEN 2
              ELSE IF w = "w496" THEN 496
              ELSE 4

\* A length in words, not in characters: a variant of QueryLen
WordCount(text) == Len(text)

\* len(query) of a query without whitespace around it
RECURSIVE QueryLen(_)
QueryLen(text) == IF text = <<>> THEN 0 ELSE WordLen(Head(text)) + QueryLen(Tail(text))

\* str.strip()
strip(str) == str.text

\* if len(query) > 500
MaxQueryLen == 500

Range(s) == {s[i] : i \in 1..Len(s)}

\* Variant: every word is a token.
Words(text) == Range(text)

_tokenize(text) == {w \in Range(text) : WordLen(w) > 1 /\ w \notin stopwords}

\* similarity >= SIMILARITY_THRESHOLD (0.80), in integers: 5 * |A n B| >= 4 * |A u B|
ThresholdNum == 4
ThresholdDen == 5

\* MAX_CACHE_SCAN = 100
MAX_CACHE_SCAN == 100

\* _jaccard_similarity as the pair <<intersection, union>>; <<0, 1>> is 0.0
_jaccard_similarity(set1, set2) ==
    IF set1 = {} \/ set2 = {} THEN <<0, 1>>
    ELSE <<Cardinality(set1 \cap set2), Cardinality(set1 \cup set2)>>

\* a > b for two similarities
SimGreater(a, b) == a[1] * b[2] > b[1] * a[2]

AtLeastThreshold(s) == s[1] * ThresholdDen >= ThresholdNum * s[2]

\* hashlib.md5(query.encode()).hexdigest(): one key per query text
Hash(q) == <<"md5", q>>

\* The document a finished run renders for query q.
Doc(q) == [query |-> q]

VARIABLES
    now,         \* int(time.time() * 1000) of the API process
    taskRecords, \* task:{id} for every id create_task can form
    issued,      \* issued[c]: the task id create_task returned to client c
    planRun,     \* planRun[c][a]: agent a's Plan task of the workflow started for c
    tasksAll,    \* tasks:all, the task ids of the task list
    response,    \* the answer to the submission: its HTTP status, and the body answered
    logs,        \* the forum log handed to get_forum_log_summary
    summary,     \* what get_forum_log_summary returned
    meta,        \* task:{id}:meta, the submission record (None before submission)
    tstatus,     \* task:{id}:status, the latest status record
    result,      \* task:{id}:result
    statusLog,   \* history: the bag of status values written to the status key
    lowered,     \* history: a status write has lowered the stored progress
    main,        \* position of analyze_task_phased
    agentTask,   \* agentTask[g][a]: state of agent a's task in fan-out group g
    taskRead,    \* taskRead[g][a]: what the task read from the Blackboard
    queue,       \* workflow messages (callbacks, chain links) waiting for a worker
    payload,     \* payload[a][p]: task:{id}:agent:{a}:{p}
    agentPhase,  \* task:{id}:agent:{a}:phase
    guidance,    \* task:{id}:guidance:{plan|research}
    round,       \* task:{id}:supplement:round
    forum,       \* task:{id}:forum:log, as the bag of its entries
    cacheDoc,    \* cache:query:{hash}
    cacheMeta,   \* cache:query:{hash}:meta
    otherMeta,   \* number of cache:query:*:meta keys of queries unlike any followed here
    finalizer,   \* position of generate_report_with_forum
    hist         \* history: counters of what the workflow has launched

vars == <<now, taskRecords, issued, planRun, tasksAll, response, logs, summary, meta, tstatus, result, statusLog, lowered, main, agentTask, taskRead, queue,
          payload, agentPhase, guidance, round, forum, cacheDoc, cacheMeta,
          otherMeta, finalizer, hist>>

idVars == <<now, taskRecords, issued, planRun>>
apiVars == <<meta, tasksAll, response, idVars>>
sumVars == <<logs, summary>>
bbVars == <<payload, agentPhase, guidance, round, forum>>
cacheVars == <<cacheDoc, cacheMeta, otherMeta>>
storeVars == <<tstatus, result, statusLog, lowered>>

(***************************************************************************)
(* Variants of the program's operators: each breaks one thing the          *)
(* properties at the end of the module depend on.                          *)
(***************************************************************************)

\* A payload check that asks for the payload only, not for its state_dict
HasPayload(p) == p # None

\* INCR that adds two
IncrementTwice(r) == r + 2

\* a round limit that never applies
NeverForced(current_round) == FALSE

\* a chord whose body fires at the first header task that succeeds
ChordAny(at, g) == \E a \in {"query", "media", "insight"} : at[g][a] = "ok"

\* a guidance write that is dropped
DropGuidance(g, phase, text) == g

\* a result write that is dropped
SkipResult(st, res) == st

\* a task view that is the submission record alone
SubmissionView == meta

\* LPUSH: a push at the head of the list
lpush(list, e) == <<e>> \o list

(***************************************************************************)
(* Status store (tasks/analysis.py and tasks/report.py update_task_status, *)
(* api/task_manager.py).                                                   *)
(***************************************************************************)

\* The record update_task_status writes under the status key.  `error` is
\* the message text ("" when str(exc) is empty), Nil when not passed.
StatusData(status, progress, res, error) ==
    [status |-> status,
     progress |-> progress,
     has_result |-> (res # None),
     error |-> IF error # Nil /\ error # "" THEN error ELSE Nil]

\* The keys of the status store and what is recorded of their writes, as
\* one value.
Store ==
    [tstatus |-> tstatus, result |-> result, statusLog |-> statusLog,
     lowered |-> lowered]

SetStore(st) ==
    /\ tstatus' = st.tstatus
    /\ result' = st.result
    /\ statusLog' = st.statusLog
    /\ lowered' = st.lowered

\* update_task_status, first write: the result key, when a result is passed.
write_result(st, res) ==
    [st EXCEPT !.result = IF res # None THEN res ELSE @]

\* update_task_status, second write: the whole status record, replacing the
\* previous one.
write_status(st, status, progress, res, error) ==
    [st EXCEPT !.tstatus = Some(StatusData(status, progress, res, error)),
               !.statusLog = @ (+) SetToBag({status}),
               !.lowered = @ \/ (st.tstatus # None
                                   /\ progress < Val(st.tstatus).progress)]

\* update_task_status: the two writes in the order of the code.
update_task_status(st, status, progress, res, error) ==
    write_status(write_result(st, res), status, progress, res, error)

\* TaskManager.get_task: the submission record overlaid with the latest status.
get_task ==
    IF meta = None THEN None
    ELSE IF tstatus = None THEN meta
    ELSE Some([Val(meta) EXCEPT
                 !.status = Val(tstatus).status,
                 !.progress = Val(tstatus).progress,
                 !.error_message = IF Val(tstatus).error # Nil
                                   THEN Val(tstatus).error ELSE @,
                 !.completed = (Val(tstatus).status = "completed")])

(***************************************************************************)
(* Blackboard (tasks/blackboard.py).                                       *)
(***************************************************************************)

\* A forum entry: the speaker and the content, the content as the kind of
\* message and the value formatted into it.
Entry(speaker, kind, detail) == [speaker |-> speaker, kind |-> kind, detail |-> detail]

\* append_forum_log: RPUSH of one entry.
append_forum_log(log, speaker, kind, detail) ==
    log (+) SetToBag({Entry(speaker, kind, detail)})

InForum(speaker, kind, detail) == BagIn(Entry(speaker, kind, detail), forum)

\* increment_supplement_round: INCR
increment_supplement_round(r) == r + 1

\* get_supplement_round
get_supplement_round(r) == r

\* save_guidance / get_guidance: "" and a missing key both read as no guidance
save_guidance(g, phase, text) == [g EXCEPT ![phase] = text]

HasStateDict(p) == p # None /\ Val(p).state_dict

(***************************************************************************)
(* Query cache (tasks/analysis.py check_query_cache, tasks/report.py       *)
(* _set_query_cache).                                                      *)
(***************************************************************************)

Hashes == {Hash(q) : q \in Queries \cup {QOver}}

MetaKeys == {h \in Hashes : cacheMeta[h] # None}

\* index_keys[:MAX_CACHE_SCAN]: KEYS returns the meta keys in an order Redis
\* does not fix, so the scan reads any ScanSize of them.  The keys counted by
\* otherMeta hold tokens that share nothing with the query.
MetaTokens(h) == Val(cacheMeta[h]).tokens

Min(a, b) == IF a <= b THEN a ELSE b

ScanAll == Cardinality(MetaKeys) + otherMeta

ScanSize == Min(Cardinality(MetaKeys) + otherMeta, MAX_CACHE_SCAN)

Scans == {S \in SUBSET MetaKeys :
            /\ Cardinality(S) <= ScanSize
            /\ ScanSize - Cardinality(S) <= otherMeta}

\* The candidates of the scan with the highest similarity: the loop keeps the
\* first of them in scan order.
BestMatches(query_tokens, S) ==
    {h \in S :
        /\ SimGreater(_jaccard_similarity(query_tokens, MetaTokens(h)), <<0, 1>>)
        /\ \A k \in S :
              ~SimGreater(_jaccard_similarity(query_tokens, MetaTokens(k)),
                          _jaccard_similarity(query_tokens, MetaTokens(h)))}

\* The document the scan's best match leads to, None when it is below the
\* threshold or its document is gone.
BestResult(query_tokens, h) ==
    IF /\ AtLeastThreshold(_jaccard_similarity(query_tokens, MetaTokens(h)))
       /\ cacheDoc[Val(cacheMeta[h]).result_key] # None
    THEN cacheDoc[Val(cacheMeta[h]).result_key]
    ELSE None

\* check_query_cache: the outcomes one call may have, each the value returned
\* (None: a miss) with the number of meta entries the call has read.
check_query_cache(query) ==
    IF cacheDoc[Hash(query)] # None
    THEN {[ret |-> cacheDoc[Hash(query)], reads |-> 0]}
    ELSE IF _tokenize(query) = {} \/ ScanSize = 0
    THEN {[ret |-> None, reads |-> 0]}
    ELSE UNION {IF BestMatches(_tokenize(query), S) = {}
                THEN {[ret |-> None, reads |-> ScanSize]}
                ELSE {[ret |-> BestResult(_tokenize(query), h), reads |-> ScanSize] :
                        h \in BestMatches(_tokenize(query), S)} : S \in Scans}

\* _set_query_cache: the document under the hash, then its meta record,
\* stamped with datetime.now().
MetaRecord(query, at) ==
    [query |-> query, tokens |-> _tokenize(query), result_key |-> Hash(query),
     created_at |-> at]

\* Variant: the meta record first, the document after it.
MetaBeforeDoc(query, doc, first) ==
    /\ IF first
       THEN cacheMeta' = [cacheMeta EXCEPT ![Hash(query)] = Some(MetaRecord(query, now))]
            /\ UNCHANGED cacheDoc
       ELSE cacheDoc' = [cacheDoc EXCEPT ![Hash(query)] = Some(doc)]
            /\ UNCHANGED cacheMeta
    /\ UNCHANGED otherMeta

\* The two SETs are two steps: `first` tells which of them this one is.
_set_query_cache(query, doc, first) ==
    /\ IF first
       THEN cacheDoc' = [cacheDoc EXCEPT ![Hash(query)] = Some(doc)]
            /\ UNCHANGED cacheMeta
       ELSE cacheMeta' = [cacheMeta EXCEPT ![Hash(query)] = Some(MetaRecord(query, now))]
            /\ UNCHANGED cacheDoc
    /\ UNCHANGED otherMeta

(***************************************************************************)
(* Initial state: no task yet; the cache holds what earlier runs left.     *)
(***************************************************************************)

\* Cache content left by earlier runs: for each seeded query its entry is
\* absent or complete.
SeedQueries == {QA, QB}

CacheSeeds == [SeedQueries -> {"absent", "full"}]

\* The cache as earlier runs left it: seed[q] says whether the entry of q is
\* absent, complete, or a meta record whose document is gone, and at[q] when
\* the run of q stored it (before this run: a negative time).
Seeded(seed, at, others) ==
    /\ cacheDoc = [h \in Hashes |->
          IF h[2] \in DOMAIN seed /\ seed[h[2]] = "full"
          THEN Some(Doc(h[2])) ELSE None]
    /\ cacheMeta = [h \in Hashes |->
          IF h[2] \in DOMAIN seed /\ seed[h[2]] # "absent"
          THEN Some(MetaRecord(h[2], at[h[2]])) ELSE None]
    /\ otherMeta = others

\* Concurrent submissions: the clients whose requests the API serves at the
\* same time, each with a query of its own, and the milliseconds followed.
Clients == {"c1", "c2"}

QueryOf(c) == IF c = "c1" THEN QA ELSE QB

MaxClock == 2

\* task_id = f"task_{int(time.time() * 1000)}"
TaskIdAt(ms) == <<"task", ms>>

TaskIds == {TaskIdAt(ms) : ms \in 0..MaxClock}

\* No task yet.
Fresh ==
    /\ now = 0
    /\ taskRecords = [id \in TaskIds |-> None]
    /\ issued = [c \in Clients |-> None]
    /\ planRun = [c \in Clients |-> [a \in Agents |-> "none"]]
    /\ meta = None
    /\ tasksAll = {}
    /\ response = None
    /\ tstatus = None
    /\ result = None
    /\ statusLog = EmptyBag
    /\ lowered = FALSE
    /\ main = "none"
    /\ agentTask = [g \in Groups |-> [a \in Agents |-> "none"]]
    /\ taskRead = [g \in Groups |-> [a \in Agents |-> None]]
    /\ queue = {}
    /\ payload = [a \in Agents |-> [p \in {"plan", "research", "report"} |-> None]]
    /\ agentPhase = [a \in Agents |-> Nil]
    /\ guidance = [p \in {"plan", "research"} |-> ""]
    /\ round = 0
    /\ forum = EmptyBag
    /\ finalizer = "idle"
    /\ hist = [judge |-> [p \in {"plan", "research"} |-> 0],
               returned |-> [p \in {"plan", "research"} |-> None],
               failed |-> [p \in {"plan", "research"} |-> FALSE],
               forced |-> FALSE,
               fanout |-> [g \in Groups |-> 0],
               faults |-> 0,
               reads |-> 0,
               llm |-> None]

\* No forum summary asked for yet.
NoSummary == logs = <<>> /\ summary = None

Init ==
    Fresh /\ NoSummary /\ \E seed \in CacheSeeds : Seeded(seed, [q \in SeedQueries |-> -1], 0)

(***************************************************************************)
(* Submission API (api/v2.py create_analysis, TaskManager.create_task).    *)
(***************************************************************************)

create_task(query) ==
    [query |-> query, status |-> "pending", progress |-> 0,
     error_message |-> Nil, completed |-> FALSE]

\* task_id: one task is followed
TaskId == "task_1"

\* TaskManager.get_task_count: the keys of the counts dictionary besides
\* total, and the dictionary for the indexed tasks.
CountedStates == {"pending", "running", "generating_report", "completed", "failed"}

StoredStatus(tid) ==
    IF tid = TaskId /\ tstatus # None THEN Val(tstatus).status
    ELSE IF tid = TaskId /\ meta # None THEN Val(meta).status
    ELSE "pending"

get_task_count ==
    [counts |-> [s \in CountedStates |->
                    Cardinality({tid \in tasksAll : StoredStatus(tid) = s})],
     total |-> Cardinality(tasksAll)]

\* TaskManager.create_task for client c: SET task:{id}, ZADD tasks:all.
TaskManager_create_task(c) ==
    /\ issued[c] = None
    /\ taskRecords' = [taskRecords EXCEPT ![TaskIdAt(now)] = Some(create_task(QueryOf(c)))]
    /\ tasksAll' = tasksAll \cup {TaskIdAt(now)}
    /\ issued' = [issued EXCEPT ![c] = Some(TaskIdAt(now))]
    /\ UNCHANGED <<now, planRun, meta, response, sumVars, storeVars, main, finalizer,
                   agentTask, taskRead, queue, bbVars, cacheVars, hist>>

\* A millisecond passes.
tick ==
    /\ now < MaxClock
    /\ now' = now + 1
    /\ UNCHANGED <<taskRecords, issued, planRun, meta, tasksAll, response, sumVars,
                   storeVars, main, finalizer, agentTask, taskRead, queue, bbVars, cacheVars,
                   hist>>

\* The workflow of client c's submission, as far as its Plan fan-out:
\* analyze_task_phased.delay(task.task_id, query) misses the cache and
\* dispatches the three Plan tasks with the task id create_task returned.
workflow_phase1(c) ==
    /\ issued[c] # None
    /\ \A a \in Agents : planRun[c][a] = "none"
    /\ planRun' = [planRun EXCEPT ![c] = [a \in Agents |-> "queued"]]
    /\ UNCHANGED <<now, taskRecords, issued, meta, tasksAll, response, sumVars, storeVars,
                   main, finalizer, agentTask, taskRead, queue, bbVars, cacheVars, hist>>

\* A worker takes agent a's Plan task of that workflow, or finishes it.
plan_task(c, a) ==
    /\ planRun[c][a] \in {"queued", "running"}
    /\ planRun' = [planRun EXCEPT ![c][a] = IF @ = "queued" THEN "running" ELSE "ok"]
    /\ UNCHANGED <<now, taskRecords, issued, meta, tasksAll, response, sumVars, storeVars,
                   main, finalizer, agentTask, taskRead, queue, bbVars, cacheVars, hist>>

\* create_analysis: data is the JSON body, None when there is none; without
\* options the mode is phased.
Answer(status, data) == Some([status |-> status, request |-> data])

create_analysis(data) ==
    /\ meta = None /\ response = None
    /\ IF data = None
       THEN response' = Answer(400, data) /\ UNCHANGED <<meta, tasksAll, main>>
       ELSE LET query == strip(Val(data).query)
            IN  IF QueryLen(query) = 0 \/ QueryLen(query) > MaxQueryLen
                THEN response' = Answer(400, data) /\ UNCHANGED <<meta, tasksAll, main>>
                ELSE /\ meta' = Some(create_task(query))
                     /\ tasksAll' = tasksAll \cup {TaskId}
                     /\ main' = "queued"
                     /\ response' = Answer(200, data)
    /\ UNCHANGED <<idVars, sumVars, storeVars, finalizer, agentTask, taskRead, queue, bbVars,
                   cacheVars, hist>>


(***************************************************************************)
(* Celery primitives used by the workflow.                                 *)
(***************************************************************************)

\* A workflow message waiting for a worker: the task name and the arguments
\* the previous link hands over.
NoReports == [a \in Agents |-> ""]

Msg(name, decision, text, reports) ==
    [name |-> name, decision |-> decision, guidance |-> text, reports |-> reports]

Call(name) == Msg(name, "", "", NoReports)

\* chord(group(...), callback).apply_async(): the three header tasks are queued
dispatch(at, g) == [at EXCEPT ![g] = [a \in Agents |-> "queued"]]

launched(h, g) == [h EXCEPT !.fanout[g] = @ + 1]

\* One more injected fault, within the budget.
CanFault == hist.faults < MaxFaults

faulted(h, isFault) == IF isFault THEN [h EXCEPT !.faults = @ + 1] ELSE h

\* The chord's counter: the body is queued when the last header task has
\* succeeded.  A header task that raised makes the chord fail: the body is
\* never run.
ChordDone(at, g) == \A a \in Agents : at[g][a] = "ok"

ChordBody(at, g, q, body) == IF ChordDone(at, g) THEN q \cup {body} ELSE q

(***************************************************************************)
(* Workflow entry (tasks/analysis.py analyze_task_phased).                 *)
(***************************************************************************)

analyze_task_phased ==
    /\ main = "queued"
    /\ forum' = append_forum_log(forum, "system", "start", "")
    /\ LET running == update_task_status(Store, "running", 5, None, Nil)
       IN  \E c \in check_query_cache(Val(meta).query) :
             IF c.ret # None
             THEN /\ SetStore(write_result(running, c.ret))
                  /\ main' = "hit"
                  /\ hist' = [hist EXCEPT !.reads = c.reads]
                  /\ UNCHANGED agentTask
             ELSE /\ SetStore(running)
                  /\ agentTask' = dispatch(agentTask, "plan")
                  /\ hist' = launched([hist EXCEPT !.reads = c.reads], "plan")
                  /\ main' = "dispatched"
    /\ UNCHANGED <<apiVars, sumVars, finalizer, taskRead, queue, payload, agentPhase, guidance, round,
                   cacheVars>>

\* Cache hit: the status record of update_task_status(task_id, 'completed',
\* 100, result=cached_result), written after the result key.
analyze_task_phased_hit ==
    /\ main = "hit"
    /\ SetStore(write_status(Store, "completed", 100, result, Nil))
    /\ main' = "done"
    /\ UNCHANGED <<apiVars, sumVars, finalizer, agentTask, taskRead, queue, bbVars, cacheVars, hist>>

\* The status write that follows workflow_phase1.apply_async(): the header
\* tasks are already with the workers when it happens.
analyze_task_phased_status ==
    /\ main = "dispatched"
    /\ SetStore(update_task_status(Store, "phase1_plan", 20, None, Nil))
    /\ main' = "done"
    /\ UNCHANGED <<apiVars, sumVars, finalizer, agentTask, taskRead, queue, bbVars, cacheVars, hist>>

(***************************************************************************)
(* Agent phase tasks (tasks/agents_phased.py).  The three agents' tasks of *)
(* a phase have the same body.  One task is one step: it writes keys of    *)
(* its own agent only and appends to the forum, and no Judge or callback   *)
(* runs while a fan-out is under way except analyze_task_phased's last     *)
(* status write.  It ends with its payload and forum entry, or with the    *)
(* forum entry of the failure and a re-raise.                              *)
(***************************************************************************)

\* A save that lands under the agent's plan key whatever the phase.
SaveUnderPlan(pl, a, p, data) == [pl EXCEPT ![a]["plan"] = Some(data)]

\* What the agent capabilities may hand back.
PlanOutcomes == {[state_dict |-> TRUE], [state_dict |-> FALSE]}
ReportOutcomes == {"report", ""}

set_agent_phase(ap, a, p) == [ap EXCEPT ![a] = p]

save_result(pl, a, p, data) == [pl EXCEPT ![a][p] = Some(data)]

\* query_plan / media_plan / insight_plan: the task ran to its return.
query_plan(a, plan) ==
    /\ agentTask["plan"][a] = "queued"
    /\ agentPhase' = set_agent_phase(agentPhase, a, "plan")
    /\ taskRead' = [taskRead EXCEPT !["plan"][a] = Some([guidance |-> guidance["plan"]])]
    /\ payload' = save_result(payload, a, "plan", plan)
    /\ forum' = append_forum_log(append_forum_log(forum, a, "plan_start", ""),
                                 a, "plan_done", "")
    /\ agentTask' = [agentTask EXCEPT !["plan"][a] = "ok"]
    /\ queue' = ChordBody(agentTask', "plan", queue, Call("on_all_plans_complete"))
    /\ ~plan.state_dict => CanFault
    /\ hist' = faulted(hist, ~plan.state_dict)
    /\ UNCHANGED <<apiVars, sumVars, storeVars, main, finalizer, guidance, round, cacheVars>>

\* The agent raised or the task ran into its soft time limit: the handler
\* logs and re-raises.
query_plan_raise(a) ==
    /\ agentTask["plan"][a] = "queued"
    /\ agentPhase' = set_agent_phase(agentPhase, a, "plan")
    /\ forum' = append_forum_log(append_forum_log(forum, a, "plan_start", ""),
                                 a, "plan_failed", "")
    /\ agentTask' = [agentTask EXCEPT !["plan"][a] = "failed"]
    /\ CanFault
    /\ hist' = faulted(hist, TRUE)
    /\ UNCHANGED <<apiVars, sumVars, storeVars, main, finalizer, taskRead, queue, payload, guidance,
                   round, cacheVars>>

(***************************************************************************)
(* Barrier of the Plan phase (tasks/analysis.py on_all_plans_complete).    *)
(***************************************************************************)

on_all_plans_complete ==
    /\ Call("on_all_plans_complete") \in queue
    /\ forum' = append_forum_log(forum, "system", "phase1_done", "")
    /\ SetStore(update_task_status(Store, "orchestrating_plan", 35, None, Nil))
    /\ queue' = (queue \ {Call("on_all_plans_complete")}) \cup {Call("orchestrate_plan")}
    /\ UNCHANGED <<apiVars, sumVars, main, finalizer, agentTask, taskRead, payload, agentPhase, guidance,
                   round, cacheVars, hist>>

(***************************************************************************)
(* Orchestrator Judge (tasks/orchestrator.py).                             *)
(***************************************************************************)

\* A line of an LLM reply: what it starts with and the text after the colon.
DecisionTexts == {"APPROVE", "REVISE", "SUPPLEMENT", "unclear"}
GuidanceTexts == {"", "g"}

ReplyLines ==
    {[key |-> "DECISION:", text |-> t] : t \in DecisionTexts}
    \cup {[key |-> "GUIDANCE:", text |-> t] : t \in GuidanceTexts}
    \cup {[key |-> "text", text |-> "unclear"]}

Replies == UNION {[1..n -> ReplyLines] : n \in 0..MaxReplyLines}

\* 'revise' in decision_text, 'supplement' in decision_text
TextHas(text, word) ==
    \/ word = "revise" /\ text = "REVISE"
    \/ word = "supplement" /\ text = "SUPPLEMENT"

\* _parse_llm_response: the last DECISION: line and the last GUIDANCE: line
\* decide; the defaults are approve and no guidance.
_parse_llm_response(content) ==
    LET P[i \in 0..Len(content)] ==
            IF i = 0 THEN [decision |-> "approve", guidance |-> ""]
            ELSE IF content[i].key = "DECISION:"
                 THEN [P[i - 1] EXCEPT !.decision =
                          IF TextHas(content[i].text, "revise") THEN "revise"
                          ELSE IF TextHas(content[i].text, "supplement") THEN "supplement"
                          ELSE "approve"]
            ELSE IF content[i].key = "GUIDANCE:"
                 THEN [P[i - 1] EXCEPT !.guidance = content[i].text]
            ELSE P[i - 1]
    IN  P[Len(content)]

\* What one call of chat.completions.create may do.
LLMOutcomes ==
    {[kind |-> k, content |-> <<>>] : k \in {"no_choices", "policy_error", "other_error"}}
    \cup {[kind |-> "reply", content |-> c] : c \in Replies}

Unused == [kind |-> "other_error", content |-> <<>>]

\* The LLM configuration and behaviour one Judge call meets.
LLMEnvs ==
    {[api_key |-> FALSE, primary |-> Unused, deepseek_key |-> FALSE, deepseek |-> Unused]}
    \cup {[api_key |-> TRUE, primary |-> o, deepseek_key |-> FALSE, deepseek |-> Unused] :
             o \in LLMOutcomes}
    \cup {[api_key |-> TRUE, primary |-> [kind |-> "policy_error", content |-> <<>>],
           deepseek_key |-> TRUE, deepseek |-> o] : o \in LLMOutcomes}

Approve == [decision |-> "approve", guidance |-> ""]

\* _call_llm_for_decision
_call_llm_for_decision(env) ==
    IF ~env.api_key THEN Approve
    ELSE IF env.primary.kind = "reply" THEN _parse_llm_response(env.primary.content)
    ELSE IF env.primary.kind = "no_choices" THEN Approve
    ELSE IF env.primary.kind = "policy_error"
         THEN IF ~env.deepseek_key THEN Approve
              ELSE IF env.deepseek.kind = "reply"
                   THEN _parse_llm_response(env.deepseek.content)
              ELSE Approve
    ELSE Approve

\* Variant: the fallback model is tried after every primary failure.
DeepseekOnAnyError(env) ==
    IF env.api_key /\ env.primary.kind \in {"policy_error", "other_error"} /\ env.deepseek_key
    THEN 1 ELSE 0

\* The calls made to the fallback model by one _call_llm_for_decision.
DeepseekCalls(env) ==
    IF env.api_key /\ env.primary.kind = "policy_error" /\ env.deepseek_key THEN 1 ELSE 0

\* The Blackboard keys a Judge task writes, as one value; a write is one of
\* log / guide / incr, a read is read.
BB == [forum |-> forum, guidance |-> guidance, round |-> round]

Log(kind, detail) == [op |-> "log", kind |-> kind, detail |-> detail]
Guide(phase, text) == [op |-> "guide", kind |-> phase, detail |-> text]
Incr == [op |-> "incr", kind |-> "", detail |-> ""]
Read == [op |-> "read", kind |-> "", detail |-> ""]

BBApply(bb, o) ==
    IF o.op = "log"
    THEN [bb EXCEPT !.forum = append_forum_log(bb.forum, "orchestrator", o.kind, o.detail)]
    ELSE IF o.op = "guide"
    THEN [bb EXCEPT !.guidance = save_guidance(bb.guidance, o.kind, o.detail)]
    ELSE IF o.op = "incr"
    THEN [bb EXCEPT !.round = increment_supplement_round(bb.round)]
    ELSE bb

\* The first n operations of ops, applied in order.
BBRun(bb, ops, n) ==
    LET F[i \in 0..n] == IF i = 0 THEN bb ELSE BBApply(F[i - 1], ops[i])
    IN  F[n]

SetBB(bb) ==
    /\ forum' = bb.forum
    /\ guidance' = bb.guidance
    /\ round' = bb.round

\* Variant: a plan review that notes its guidance without saving it.
PlanReviewUnsaved(d) ==
    <<Log("plan_review_start", ""), Read,
      Log(IF d.guidance # "" THEN "plan_review_guidance" ELSE "plan_review", d.decision)>>

\* Blackboard operations of the try block of orchestrate_plan, given the
\* LLM's answer.
PlanReviewOps(d) ==
    <<Log("plan_review_start", ""), Read>>
    \o (IF d.guidance # ""
        THEN <<Guide("plan", d.guidance), Log("plan_review_guidance", d.decision)>>
        ELSE <<Log("plan_review", d.decision)>>)

\* Every answer _call_llm_for_decision can give.
JudgeAnswers == {_call_llm_for_decision(env) : env \in LLMEnvs}

\* What a Judge task hands to the next link of its chain, for the value `d`
\* its try block returns: the Blackboard fails at operation failAt (0:
\* never); the except handler then logs and returns approve, unless its own
\* append fails too (handlerFails) and the task raises (None).
JudgeReturn(d, failAt, handlerFails) ==
    IF failAt = 0 THEN Some(d)
    ELSE IF ~handlerFails THEN Some(Approve)
    ELSE None

\* A Judge task, for the operations `ops` of its try block.
JudgeRun(ops, d, failAt, handlerFails, failNote, next) ==
    /\ SetBB(IF failAt = 0 THEN BBRun(BB, ops, Len(ops))
             ELSE IF ~handlerFails
             THEN BBApply(BBRun(BB, ops, failAt - 1), Log(failNote, ""))
             ELSE BBRun(BB, ops, failAt - 1))
    /\ queue' = {Msg(next, r[1].decision, r[1].guidance, NoReports) :
                    r \in {JudgeReturn(d, failAt, handlerFails)} \ {None}}

\* History of a Judge run that ended: what it returned, whether the
\* Blackboard failed in it, whether it met the round limit.
judged(h, p, ret, failedRun, forcedRun) ==
    [h EXCEPT !.judge[p] = @ + 1,
              !.returned[p] = ret,
              !.failed[p] = failedRun,
              !.forced = @ \/ forcedRun]

orchestrate_plan(d, failAt, handlerFails) ==
    /\ Call("orchestrate_plan") \in queue
    /\ failAt <= Len(PlanReviewOps(d))
    /\ failAt = 0 => ~handlerFails
    /\ failAt # 0 => CanFault
    /\ JudgeRun(PlanReviewOps(d), d, failAt, handlerFails,
                "plan_review_failed", "trigger_phase2_research")
    /\ hist' = faulted(judged(hist, "plan", JudgeReturn(d, failAt, handlerFails),
                               failAt # 0, FALSE),
                        failAt # 0)
    /\ UNCHANGED <<apiVars, sumVars, storeVars, main, finalizer, agentTask, taskRead, payload, agentPhase,
                   cacheVars>>

(***************************************************************************)
(* Phase 2 (tasks/analysis.py trigger_phase2_research, agents_phased.py    *)
(* *_research, analysis.py on_all_research_complete).                      *)
(***************************************************************************)

Taken(name) == {m \in queue : m.name = name}

trigger_phase2_research ==
    \E m \in Taken("trigger_phase2_research") :
        /\ forum' = IF m.decision = "revise"
                    THEN append_forum_log(
                             append_forum_log(forum, "system", "revise_auto_approve", ""),
                             "system", "phase2_start", "")
                    ELSE append_forum_log(forum, "system", "phase2_start", "")
        /\ SetStore(update_task_status(Store, "phase2_research", 40, None, Nil))
        /\ agentTask' = dispatch(agentTask, "research")
        /\ hist' = launched(hist, "research")
        /\ queue' = queue \ {m}
        /\ UNCHANGED <<apiVars, sumVars, main, finalizer, taskRead, payload, agentPhase, guidance, round,
                       cacheVars>>

\* The body of the chord the research tasks of group g belong to.
ResearchBody(g) ==
    IF g = "research" THEN Call("on_all_research_complete")
    ELSE Call("trigger_phase3_report")

\* query_research / media_research / insight_research, in the Research
\* fan-out (g = "research") or in the supplement fan-out, which dispatches
\* the same tasks again (g = "supplement"): the task ran to its return, or
\* raised the ValueError of a plan without state_dict.
query_research(g, a, sd) ==
    /\ g \in {"research", "supplement"}
    /\ agentTask[g][a] = "queued"
    /\ agentPhase' = set_agent_phase(agentPhase, a, "research")
    /\ IF ~HasStateDict(payload[a]["plan"])
       THEN /\ forum' = append_forum_log(forum, a, "research_failed", "")
            /\ agentTask' = [agentTask EXCEPT ![g][a] = "failed"]
            /\ sd
            /\ UNCHANGED <<taskRead, payload, queue, hist>>
       ELSE /\ taskRead' = [taskRead EXCEPT ![g][a] =
                               Some([plan |-> Val(payload[a]["plan"]),
                                     guidance |-> guidance["research"]])]
            /\ payload' = save_result(payload, a, "research",
                                      [state_dict |-> sd,
                                       guidance |-> guidance["research"],
                                       by |-> g])
            /\ forum' = append_forum_log(
                            IF guidance["research"] # ""
                            THEN append_forum_log(forum, a, "got_guidance", "")
                            ELSE forum,
                            a, "research_done", "")
            /\ agentTask' = [agentTask EXCEPT ![g][a] = "ok"]
            /\ queue' = ChordBody(agentTask', g, queue, ResearchBody(g))
            /\ ~sd => CanFault
            /\ hist' = faulted(hist, ~sd)
    /\ UNCHANGED <<apiVars, sumVars, storeVars, main, finalizer, guidance, round, cacheVars>>

\* The agent raised or the task ran into its soft time limit.
query_research_raise(g, a) ==
    /\ g \in {"research", "supplement"}
    /\ agentTask[g][a] = "queued"
    /\ HasStateDict(payload[a]["plan"])
    /\ agentPhase' = set_agent_phase(agentPhase, a, "research")
    /\ forum' = append_forum_log(
                    IF guidance["research"] # ""
                    THEN append_forum_log(forum, a, "got_guidance", "")
                    ELSE forum,
                    a, "research_failed", "")
    /\ agentTask' = [agentTask EXCEPT ![g][a] = "failed"]
    /\ CanFault
    /\ hist' = faulted(hist, TRUE)
    /\ UNCHANGED <<apiVars, sumVars, storeVars, main, finalizer, taskRead, queue, payload, guidance,
                   round, cacheVars>>

\* The soft time limit went off (SoftTimeLimitExceeded, an Exception) after
\* save_research_result and before the closing forum note: the handler
\* appends the failure note and raises again.
query_research_cut(g, a, sd) ==
    /\ g \in {"research", "supplement"}
    /\ agentTask[g][a] = "queued"
    /\ HasStateDict(payload[a]["plan"])
    /\ agentPhase' = set_agent_phase(agentPhase, a, "research")
    /\ taskRead' = [taskRead EXCEPT ![g][a] =
                        Some([plan |-> Val(payload[a]["plan"]),
                              guidance |-> guidance["research"]])]
    /\ payload' = save_result(payload, a, "research",
                              [state_dict |-> sd,
                               guidance |-> guidance["research"],
                               by |-> g])
    /\ forum' = append_forum_log(
                    IF guidance["research"] # ""
                    THEN append_forum_log(forum, a, "got_guidance", "")
                    ELSE forum,
                    a, "research_failed", "")
    /\ agentTask' = [agentTask EXCEPT ![g][a] = "failed"]
    /\ CanFault
    /\ hist' = faulted(hist, TRUE)
    /\ UNCHANGED <<apiVars, sumVars, storeVars, main, finalizer, queue, guidance, round,
                   cacheVars>>

on_all_research_complete ==
    /\ Call("on_all_research_complete") \in queue
    /\ forum' = append_forum_log(forum, "system", "phase2_done", "")
    /\ SetStore(update_task_status(Store, "orchestrating_research", 65, None, Nil))
    /\ queue' = (queue \ {Call("on_all_research_complete")})
                   \cup {Call("orchestrate_research")}
    /\ UNCHANGED <<apiVars, sumVars, main, finalizer, agentTask, taskRead, payload, agentPhase, guidance,
                   round, cacheVars, hist>>

(***************************************************************************)
(* Judge of the Research phase (tasks/orchestrator.py orchestrate_research)*)
(* and the branch on its decision (tasks/analysis.py                       *)
(* handle_research_decision).                                              *)
(***************************************************************************)

\* The number formatted into the supplement note.
RoundText(r) == IF r = 1 THEN "1" ELSE "many"

\* The round limit: at current_round >= 1 the Judge approves without asking
\* the LLM.
ForcedApprove(current_round) == current_round >= 1

\* Blackboard operations of the try block of orchestrate_research, for the
\* round read at its start and the LLM's answer.
ResearchReviewOps(current_round, d) ==
    <<Log("research_review_start", ""), Read>>
    \o (IF ForcedApprove(current_round)
        THEN <<Log("max_round_forced_approve", "")>>
        ELSE <<Read>>
             \o (IF d.decision = "supplement"
                 THEN <<Incr,
                        Log("research_review_supplement",
                            RoundText(increment_supplement_round(current_round)))>>
                      \o (IF d.guidance # ""
                          THEN <<Guide("research", d.guidance)>> ELSE <<>>)
                 ELSE <<Log("research_review", d.decision)>>))

\* What orchestrate_research returns from its try block.
ResearchReviewResult(current_round, d) ==
    IF ForcedApprove(current_round) THEN Approve ELSE d

orchestrate_research(d, failAt, handlerFails) ==
    /\ Call("orchestrate_research") \in queue
    /\ failAt <= Len(ResearchReviewOps(get_supplement_round(round), d))
    /\ failAt = 0 => ~handlerFails
    /\ failAt # 0 => CanFault
    /\ JudgeRun(ResearchReviewOps(get_supplement_round(round), d),
                ResearchReviewResult(get_supplement_round(round), d),
                failAt, handlerFails,
                "research_review_failed", "handle_research_decision")
    /\ hist' = faulted(judged(hist, "research",
                               JudgeReturn(ResearchReviewResult(get_supplement_round(round), d),
                                           failAt, handlerFails),
                               failAt # 0,
                               get_supplement_round(round) >= 1),
                        failAt # 0)
    /\ UNCHANGED <<apiVars, sumVars, storeVars, main, finalizer, agentTask, taskRead, payload, agentPhase,
                   cacheVars>>

\* task_acks_late with task_reject_on_worker_lost: a Judge task whose worker
\* process is lost after its first n Blackboard operations is put back on
\* the queue and runs again from the start.
orchestrate_research_lost(d, n) ==
    /\ Call("orchestrate_research") \in queue
    /\ n <= Len(ResearchReviewOps(get_supplement_round(round), d))
    /\ CanFault
    /\ SetBB(BBRun(BB, ResearchReviewOps(get_supplement_round(round), d), n))
    /\ hist' = faulted(hist, TRUE)
    /\ UNCHANGED <<apiVars, sumVars, storeVars, main, finalizer, agentTask, taskRead, queue, payload,
                   agentPhase, cacheVars>>

handle_research_decision ==
    \E m \in Taken("handle_research_decision") :
        IF m.decision = "supplement"
        THEN /\ forum' = append_forum_log(forum, "system", "need_supplement", m.guidance)
             /\ guidance' = IF m.guidance # ""
                            THEN save_guidance(guidance, "research", m.guidance)
                            ELSE guidance
             /\ SetStore(update_task_status(Store, "phase2_supplement", 70, None, Nil))
             /\ agentTask' = dispatch(agentTask, "supplement")
             /\ hist' = launched(hist, "supplement")
             /\ queue' = queue \ {m}
             /\ UNCHANGED <<apiVars, sumVars, main, finalizer, taskRead, payload, agentPhase, round, cacheVars>>
        ELSE /\ forum' = append_forum_log(forum, "system", "research_approved", "")
             /\ queue' = (queue \ {m}) \cup {Call("trigger_phase3_report")}
             /\ UNCHANGED <<apiVars, sumVars, storeVars, main, finalizer, agentTask, taskRead, payload,
                            agentPhase, guidance, round, cacheVars, hist>>

(***************************************************************************)
(* Phase 3 (tasks/analysis.py trigger_phase3_report, agents_phased.py      *)
(* *_report, analysis.py generate_final_report).                           *)
(***************************************************************************)

trigger_phase3_report ==
    /\ Call("trigger_phase3_report") \in queue
    /\ forum' = append_forum_log(forum, "system", "phase3_start", "")
    /\ SetStore(update_task_status(Store, "phase3_report", 75, None, Nil))
    /\ agentTask' = dispatch(agentTask, "report")
    /\ hist' = launched(hist, "report")
    /\ queue' = queue \ {Call("trigger_phase3_report")}
    /\ UNCHANGED <<apiVars, sumVars, main, finalizer, taskRead, payload, agentPhase, guidance, round, cacheVars>>

\* The results the chord hands to its body: what each report task returned.
ReportResults(pl) == [a \in Agents |-> Val(pl[a]["report"]).text]

\* query_report / media_report / insight_report: the task ran to its
\* return, or raised the ValueError of a research result without state_dict.
query_report(a, text) ==
    /\ agentTask["report"][a] = "queued"
    /\ agentPhase' = set_agent_phase(agentPhase, a, "report")
    /\ IF ~HasStateDict(payload[a]["research"])
       THEN /\ forum' = append_forum_log(forum, a, "report_failed", "")
            /\ agentTask' = [agentTask EXCEPT !["report"][a] = "failed"]
            /\ text # ""
            /\ UNCHANGED <<taskRead, payload, queue>>
       ELSE /\ taskRead' = [taskRead EXCEPT !["report"][a] =
                               Some([research |-> Val(payload[a]["research"])])]
            /\ payload' = save_result(payload, a, "report", [text |-> text])
            /\ forum' = append_forum_log(forum, a, "report_done", "")
            /\ agentTask' = [agentTask EXCEPT !["report"][a] = "ok"]
            /\ queue' = IF ChordDone(agentTask', "report")
                        THEN queue \cup {Msg("generate_final_report", "", "",
                                             ReportResults(payload'))}
                        ELSE queue
    /\ UNCHANGED <<apiVars, sumVars, storeVars, main, finalizer, guidance, round, cacheVars, hist>>

\* The agent raised or the task ran into its soft time limit.
query_report_raise(a) ==
    /\ agentTask["report"][a] = "queued"
    /\ HasStateDict(payload[a]["research"])
    /\ agentPhase' = set_agent_phase(agentPhase, a, "report")
    /\ forum' = append_forum_log(forum, a, "report_failed", "")
    /\ agentTask' = [agentTask EXCEPT !["report"][a] = "failed"]
    /\ CanFault
    /\ hist' = faulted(hist, TRUE)
    /\ UNCHANGED <<apiVars, sumVars, storeVars, main, finalizer, taskRead, queue, payload, guidance,
                   round, cacheVars>>

generate_final_report ==
    \E m \in Taken("generate_final_report") :
        /\ forum' = append_forum_log(forum, "system", "final_report_start", "")
        /\ SetStore(update_task_status(Store, "generating_final_report", 85, None, Nil))
        /\ queue' = (queue \ {m})
                       \cup {Msg("generate_report_with_forum", "", "", m.reports)}
        /\ UNCHANGED <<apiVars, sumVars, main, finalizer, agentTask, taskRead, payload, agentPhase, guidance,
                       round, cacheVars, hist>>

(***************************************************************************)
(* Finalization (tasks/report.py generate_report_with_forum).              *)
(***************************************************************************)

\* What ReportAgent.generate_report may do: render, raise a ValueError,
\* raise another exception with a message, or with an empty message.
RenderOutcomes == {"rendered", "value_error", "error", "error_no_text"}

\* str(exc) of the exception of a render outcome
ErrorText(outcome) == IF outcome = "error" THEN "render failed" ELSE ""

\* The report texts the finalizer keeps: the non-empty ones.
UsableReports(reports) == {a \in Agents : reports[a] # ""}

generate_report_with_forum(outcome) ==
    \E m \in Taken("generate_report_with_forum") :
        LET generating == update_task_status(Store, "generating_final_report", 85,
                                             None, Nil)
        IN  /\ queue' = queue \ {m}
            /\ IF UsableReports(m.reports) = {}
               THEN \* no report: failed, then ValueError
                    /\ SetStore(update_task_status(generating, "failed", 0, None,
                                                   "no agent report"))
                    /\ finalizer' = "raised"
               ELSE IF outcome = "rendered"
               THEN \* update_task_status(completed): the result key
                    /\ SetStore(write_result(generating, Some(Doc(Val(meta).query))))
                    /\ finalizer' = "result_written"
               ELSE IF outcome = "value_error"
               THEN \* except ValueError: raise, the status is left as it is
                    /\ SetStore(generating)
                    /\ finalizer' = "raised"
               ELSE /\ SetStore(update_task_status(generating, "failed", 0, None,
                                                   ErrorText(outcome)))
                    /\ finalizer' = "raised"
            /\ UNCHANGED <<apiVars, sumVars, main, agentTask, taskRead, bbVars, cacheVars, hist>>

\* update_task_status(completed): the status record, after the result key
generate_report_with_forum_status ==
    /\ finalizer = "result_written"
    /\ SetStore(write_status(Store, "completed", 100, result, Nil))
    /\ finalizer' = "status_written"
    /\ UNCHANGED <<apiVars, sumVars, main, agentTask, taskRead, queue, bbVars, cacheVars, hist>>

\* _set_query_cache(query, ir_json), then return
generate_report_with_forum_cache ==
    /\ finalizer \in {"status_written", "doc_cached"}
    /\ _set_query_cache(Val(meta).query, Val(result), finalizer = "status_written")
    /\ finalizer' = IF finalizer = "status_written" THEN "doc_cached" ELSE "returned"
    /\ UNCHANGED <<apiVars, sumVars, storeVars, main, agentTask, taskRead, queue, bbVars, hist>>

(***************************************************************************)
(* Forum summary for the renderer (tasks/blackboard.py                     *)
(* get_forum_log_summary).  A log entry is what the function looks at: its *)
(* speaker, whether its content holds one of the skip keywords or one of   *)
(* the important keywords, and len() of the line "[speaker] content".      *)
(***************************************************************************)

\* max_chars=2000
MaxChars == 2000

\* result[:max_chars - 20]
CutBack == 20

\* len() of the sentinel appended after the cut: a newline, three dots and
\* the nine characters of the bracketed note
SentinelLen == 13

should_skip(log) == log.skipword /\ log.speaker # "orchestrator"

\* Variant: importance by keyword alone.
by_keyword(log) == log.keyword

is_important(log) == log.speaker = "orchestrator" \/ log.keyword

Kept(ls) == SelectSeq(ls, LAMBDA log : ~should_skip(log))

important_lines(ls) == SelectSeq(Kept(ls), is_important)

other_lines(ls) == SelectSeq(Kept(ls), LAMBDA log : ~is_important(log))

RECURSIVE SumLen(_)
SumLen(ls) == IF ls = <<>> THEN 0 ELSE Head(ls).len + SumLen(Tail(ls))

\* The loop over other_lines: the lines appended before the first that does
\* not fit, from current_length on.
RECURSIVE Filled(_, _, _)
Filled(others, current_length, max_chars) ==
    IF others = <<>> \/ current_length + Head(others).len + 1 > max_chars
    THEN <<>>
    ELSE <<Head(others)>> \o Filled(Tail(others), current_length + Head(others).len + 1,
                                    max_chars)

\* len('\n'.join(lines))
JoinedLen(ls) == IF ls = <<>> THEN 0 ELSE SumLen(ls) + Len(ls) - 1

\* get_forum_log_summary: the length of the text returned, whether it ends
\* with the sentinel, and the lines it was made of.
get_forum_log_summary(ls, max_chars) ==
    LET result_lines == important_lines(ls)
                          \o Filled(other_lines(ls), SumLen(important_lines(ls)), max_chars)
    IN  IF JoinedLen(result_lines) > max_chars
        THEN [len |-> max_chars - CutBack + SentinelLen, sentinel |-> TRUE,
              lines |-> result_lines]
        ELSE [len |-> JoinedLen(result_lines), sentinel |-> FALSE,
              lines |-> result_lines]

\* forum_log = blackboard.get_forum_log_summary(task_id, max_chars=2000)
forum_log_summary ==
    /\ summary = None
    /\ summary' = Some(get_forum_log_summary(logs, MaxChars))
    /\ UNCHANGED <<apiVars, logs, storeVars, main, finalizer, agentTask, taskRead, queue,
                   bbVars, cacheVars, hist>>

Next ==
    \/ \E data \in Submitted : create_analysis(data)
    \/ analyze_task_phased
    \/ analyze_task_phased_hit
    \/ analyze_task_phased_status
    \/ \E a \in Agents, plan \in PlanOutcomes : query_plan(a, plan)
    \/ \E a \in Agents : query_plan_raise(a)
    \/ on_all_plans_complete
    \/ \E d \in JudgeAnswers, failAt \in 0..4, handlerFails \in BOOLEAN :
          orchestrate_plan(d, failAt, handlerFails)
    \/ trigger_phase2_research
    \/ \E g \in Groups, a \in Agents, sd \in BOOLEAN : query_research(g, a, sd)
    \/ \E g \in Groups, a \in Agents : query_research_raise(g, a)
    \/ on_all_research_complete
    \/ \E d \in JudgeAnswers, failAt \in 0..6, handlerFails \in BOOLEAN :
          orchestrate_research(d, failAt, handlerFails)
    \/ handle_research_decision
    \/ trigger_phase3_report
    \/ \E a \in Agents, text \in ReportOutcomes : query_report(a, text)
    \/ \E a \in Agents : query_report_raise(a)
    \/ generate_final_report
    \/ \E outcome \in RenderOutcomes : generate_report_with_forum(outcome)
    \/ generate_report_with_forum_status
    \/ generate_report_with_forum_cache

Spec == Init /\ [][Next]_vars

\* The workflow on workers that can be lost while they run the research
\* Judge, the one task that decides differently when it runs again.
NextRedelivery ==
    \/ Next
    \/ \E d \in JudgeAnswers, n \in 0..6 : orchestrate_research_lost(d, n)

SpecRedelivery == Init /\ [][NextRedelivery]_vars

\* The workflow with a soft time limit that can go off at any point of a
\* Research task, the end of the task included.
NextTimeout ==
    \/ Next
    \/ \E g \in Groups, a \in Agents, sd \in BOOLEAN : query_research_cut(g, a, sd)

SpecTimeout == Init /\ [][NextTimeout]_vars

\* The workflow while the Judge's LLM cannot be reached: the primary call
\* raises a connection error or times out on every review.
LLMDown == {env \in LLMEnvs : env.api_key /\ env.primary.kind = "other_error"}

DownAnswers == {_call_llm_for_decision(env) : env \in LLMDown}

NextLLMDown ==
    \/ \E data \in Submitted : create_analysis(data)
    \/ analyze_task_phased
    \/ analyze_task_phased_hit
    \/ analyze_task_phased_status
    \/ \E a \in Agents, plan \in PlanOutcomes : query_plan(a, plan)
    \/ \E a \in Agents : query_plan_raise(a)
    \/ on_all_plans_complete
    \/ \E d \in DownAnswers, failAt \in 0..4, handlerFails \in BOOLEAN :
          orchestrate_plan(d, failAt, handlerFails)
    \/ trigger_phase2_research
    \/ \E g \in Groups, a \in Agents, sd \in BOOLEAN : query_research(g, a, sd)
    \/ \E g \in Groups, a \in Agents : query_research_raise(g, a)
    \/ on_all_research_complete
    \/ \E d \in DownAnswers, failAt \in 0..6, handlerFails \in BOOLEAN :
          orchestrate_research(d, failAt, handlerFails)
    \/ handle_research_decision
    \/ trigger_phase3_report
    \/ \E a \in Agents, text \in ReportOutcomes : query_report(a, text)
    \/ \E a \in Agents : query_report_raise(a)
    \/ generate_final_report
    \/ \E outcome \in RenderOutcomes : generate_report_with_forum(outcome)
    \/ generate_report_with_forum_status
    \/ generate_report_with_forum_cache

SpecLLMDown == Init /\ [][NextLLMDown]_vars

\* Submissions of several clients while the clock runs: create_task and
\* the Plan fan-out of the workflow each submission starts.
InitIds == Fresh /\ NoSummary /\ Seeded([q \in Queries |-> "absent"], [q \in Queries |-> -1], 0)

NextIds ==
    \/ \E c \in Clients : TaskManager_create_task(c)
    \/ tick
    \/ \E c \in Clients : workflow_phase1(c)
    \/ \E c \in Clients, a \in Agents : plan_task(c, a)

SpecIds == InitIds /\ [][NextIds]_vars

\* The submitting task alone, over every cache earlier runs can have left:
\* each query's entry absent, complete, or reduced to its meta record (the
\* document is written first with the same TTL, so it expires first), among
\* any number of entries of unrelated queries.
CacheStates == [Queries -> {"absent", "expired", "full"}]

OtherCounts == {0, MAX_CACHE_SCAN - 1, MAX_CACHE_SCAN}

\* The bodies a client may send: none, or a query string with or without
\* whitespace around its text.
Requests == {None} \cup {Some([query |-> Str(pad, text)]) :
                            pad \in {0, 2}, text \in Queries \cup {<<>>, QOver}}

\* The order in which the earlier runs finished: one of the two queries with
\* equal tokens was cached before every other entry.
SeedOrders == {[q \in Queries |-> IF q = first THEN -2 ELSE -1] : first \in {QA, QD}}

InitCache ==
    Fresh /\ NoSummary
    /\ \E seed \in CacheStates, at \in SeedOrders, n \in OtherCounts : Seeded(seed, at, n)

NextCache ==
    \/ \E data \in Requests : create_analysis(data)
    \/ analyze_task_phased
    \/ analyze_task_phased_hit
    \/ analyze_task_phased_status

SpecCache == InitCache /\ [][NextCache]_vars

\* _call_llm_for_decision alone, over every configuration and every
\* behaviour of the two models, the fallback configured or not whatever the
\* primary call does (with a fallback answer of one line at most where
\* LLMEnvs has none).
JudgeEnvs ==
    LLMEnvs
    \cup {[api_key |-> TRUE, primary |-> o, deepseek_key |-> TRUE, deepseek |-> o2] :
             o \in LLMOutcomes, o2 \in {x \in LLMOutcomes : Len(x.content) <= 1}}

call_llm_for_decision(env) ==
    /\ hist.llm = None
    /\ hist' = [hist EXCEPT !.llm = Some([env |-> env,
                                          deepseek_calls |-> DeepseekCalls(env),
                                          ret |-> _call_llm_for_decision(env)])]
    /\ UNCHANGED <<apiVars, sumVars, storeVars, main, finalizer, agentTask, taskRead,
                   queue, bbVars, cacheVars>>

NextJudge == \E env \in JudgeEnvs : call_llm_for_decision(env)

SpecJudge == InitIds /\ [][NextJudge]_vars

\* The forum log as the list Redis keeps, under concurrent writers: the
\* three agent tasks, the engine and the Judge each call append_forum_log up
\* to MaxAppends times, in any interleaving.
MaxAppends == 1

Speakers == Agents \cup {"system", "orchestrator"}

\* RPUSH: one atomic push at the tail of the list
rpush(list, e) == Append(list, e)

Appended(w) == Cardinality({i \in 1..Len(logs) : logs[i].speaker = w})

forum_append(w) ==
    /\ Appended(w) < MaxAppends
    /\ logs' = rpush(logs, Entry(w, "note", Appended(w) + 1))
    /\ UNCHANGED <<apiVars, summary, storeVars, main, finalizer, agentTask, taskRead, queue,
                   bbVars, cacheVars, hist>>

NextForum == \E w \in Speakers : forum_append(w)

SpecForum == InitIds /\ [][NextForum]_vars

\* get_forum_log_summary alone, over every forum log of up to MaxLogLines
\* entries.
MaxLogLines == 3

LineLens == {600, 1400}

LogEntries == [speaker : {"orchestrator", "query"}, skipword : BOOLEAN,
               keyword : BOOLEAN, len : LineLens]

LogInputs == UNION {[1..n -> LogEntries] : n \in 0..MaxLogLines}

InitSummary ==
    /\ Fresh
    /\ Seeded([q \in Queries |-> "absent"], [q \in Queries |-> -1], 0)
    /\ logs \in LogInputs
    /\ summary = None

NextSummary == forum_log_summary

SpecSummary == InitSummary /\ [][NextSummary]_vars

(***************************************************************************)
(* Properties.                                                             *)
(***************************************************************************)

pending == "pending"

\* The status get(task_id) shows.
Status == IF tstatus = None THEN pending ELSE Val(tstatus).status

Terminal == {"completed", "failed"}

Submitted_ == meta # None

\* The workflow can take no further step.
Quiescent == ~ENABLED Next

Ran(g, a) == agentTask[g][a] \in {"ok", "failed"}

AllOk(g) == \A a \in Agents : agentTask[g][a] = "ok"

\* C1: the supplement round counter of the task is at most 1 in every
\* reachable state, under any interleaving of Judge and agent tasks.
C1_RoundAtMostOne == round <= 1

\* C1 witness: the research Judge ran again after the counter had been
\* incremented (its first run was lost before it returned), and the counter
\* is still 1.
C1_Witness == round = 1 /\ hist.forced /\ hist.judge["research"] = 1

\* The valid path of C2, as the position of each status value on it.
PathRank(status) ==
    CASE status = "pending" -> 0
      [] status = "running" -> 1
      [] status = "phase1_plan" -> 2
      [] status = "orchestrating_plan" -> 3
      [] status = "phase2_research" -> 4
      [] status = "orchestrating_research" -> 5
      [] status = "phase2_supplement" -> 6
      [] status = "phase3_report" -> 7
      [] status = "generating_final_report" -> 8
      [] OTHER -> 9

\* One step along the path: the next value, phase2_supplement being
\* optional, or a terminal value.
PathStep(from, to) ==
    \/ to \in Terminal
    \/ PathRank(to) = PathRank(from) + 1
    \/ from = "orchestrating_research" /\ to = "phase3_report"

\* The status values a step writes.
Written == BagToSet(statusLog' (-) statusLog)

\* C2: the status values written for a task form a prefix of the path
\* pending -> running -> phase1_plan -> orchestrating_plan -> phase2_research
\* -> orchestrating_research -> [phase2_supplement] -> phase3_report ->
\* generating_final_report -> completed | failed, and no non-terminal value
\* is written twice.  (A step to a terminal value from anywhere is let
\* through here, so the cache-hit path is not what fails.)
C2_StatusPath ==
    /\ [][\A to \in Written : to \in Terminal \/ PathStep(Status, to)]_vars
    /\ [](\A st \in BagToSet(statusLog) :
             st \notin Terminal => CopiesIn(st, statusLog) <= 1)

\* C3: every submitted task reaches completed or failed, whatever agent
\* phase tasks fail or time out: when the workflow can take no further
\* step, the status is terminal.
C3_NoWedge == (Submitted_ /\ Quiescent) => Status \in Terminal

PhaseOf(g) == IF g = "supplement" THEN "research" ELSE g

FailNote(g) ==
    IF g = "plan" THEN "plan_failed"
    ELSE IF g = "report" THEN "report_failed" ELSE "research_failed"

\* C4: when an agent's phase task fails, a fallback payload for that
\* (agent, phase) is on the Blackboard and a forum entry is appended, and
\* the other agents and the subsequent phases still run: once the workflow
\* has come to rest, the Report fan-out has run for all three agents.
C4_FallbackAndContinue ==
    /\ \A g \in Groups, a \in Agents :
          agentTask[g][a] = "failed" =>
             /\ payload[a][PhaseOf(g)] # None
             /\ InForum(a, FailNote(g), "")
    /\ ((\E g \in Groups, a \in Agents : agentTask[g][a] = "failed") /\ Quiescent)
          => \A a \in Agents : Ran("report", a)

\* A reply no line of which is a DECISION: or a GUIDANCE: line
Unparsable(content) ==
    \A i \in 1..Len(content) : content[i].key = "text"

\* The LLM environments in which the Judge gets no usable answer: no
\* configuration, an error or timeout, no choices, an unparsable reply.
LLMFails(env) ==
    \/ ~env.api_key
    \/ env.primary.kind \in {"no_choices", "other_error"}
    \/ env.primary.kind = "reply" /\ Unparsable(env.primary.content)
    \/ /\ env.primary.kind = "policy_error"
       /\ \/ ~env.deepseek_key
          \/ env.deepseek.kind # "reply"
          \/ Unparsable(env.deepseek.content)

NextFanout(p) == IF p = "plan" THEN "research" ELSE "report"

\* C5: any failure of a Judge invocation (missing LLM configuration, LLM
\* error or timeout, empty or unparsable reply, a Blackboard error inside
\* the Judge task) yields approve with empty guidance, the next phase is
\* launched, and the status is never set to failed because of it.
C5_JudgeFailureApproves ==
    /\ \A env \in LLMEnvs : LLMFails(env) => _call_llm_for_decision(env) = Approve
    /\ \A p \in {"plan", "research"} :
          hist.failed[p] =>
             /\ hist.returned[p] = Some(Approve)
             /\ Quiescent => hist.fanout[NextFanout(p)] >= 1
             /\ hist.fanout[NextFanout(p)] = 0 => Status # "failed"

\* C6: no Research task runs before all three Plan tasks have finished and
\* the plan Judge has returned; no Report task runs before all Research
\* tasks (and, if a supplement round was decided, all supplement tasks)
\* have finished and the research Judge has returned.
C6_Barriers ==
    /\ (\E a \in Agents : Ran("research", a) \/ Ran("supplement", a))
          => AllOk("plan") /\ hist.returned["plan"] # None
    /\ (\E a \in Agents : Ran("supplement", a))
          => AllOk("research") /\ hist.returned["research"] # None
    /\ (\E a \in Agents : Ran("report", a))
          => /\ AllOk("research")
             /\ hist.returned["research"] # None
             /\ Val(hist.returned["research"]).decision = "supplement"
                   => AllOk("supplement")

\* C6 witness: a Report task has run after a supplement round.
C6_Witness ==
    /\ \E a \in Agents : Ran("report", a)
    /\ hist.fanout["supplement"] = 1

\* C7: if the round counter is already 1 when the research Judge runs, the
\* Judge returns approve whatever the LLM would answer (if it returns at
\* all), the counter stays 1, and no supplement fan-out is launched.
C7_RoundLimit ==
    hist.forced =>
       /\ round = 1
       /\ hist.returned["research"] \in {None, Some(Approve)}
       /\ \A m \in Taken("handle_research_decision") : m.decision = "approve"
       /\ hist.fanout["supplement"] = 0

\* C7 witness: the research Judge ran with the counter at 1, returned
\* approve, and the Report fan-out was launched.
C7_Witness ==
    /\ hist.forced
    /\ hist.returned["research"] = Some(Approve)
    /\ hist.fanout["report"] = 1

\* C8: when the research Judge returns supplement at round 0, the counter
\* becomes 1, the guidance is persisted under guidance:research, exactly
\* one supplement fan-out runs, the research Judge is not invoked again, and
\* the Report phase follows the supplement barrier.
C8_Supplement ==
    (/\ hist.returned["research"] # None
     /\ Val(hist.returned["research"]).decision = "supplement")
    => /\ round = 1
       /\ guidance["research"] = Val(hist.returned["research"]).guidance
       /\ hist.fanout["supplement"] =
             (IF Taken("handle_research_decision") = {} THEN 1 ELSE 0)
       /\ hist.judge["research"] = 1
       /\ Call("orchestrate_research") \notin queue
       /\ Call("on_all_research_complete") \notin queue
       /\ (hist.fanout["report"] > 0 \/ Call("trigger_phase3_report") \in queue)
             <=> AllOk("supplement")
       /\ hist.fanout["report"] <= 1

\* C8 witness: supplement was returned with guidance, the supplement
\* fan-out finished and the Report fan-out was launched.
C8_Witness ==
    /\ hist.returned["research"] = Some([decision |-> "supplement", guidance |-> "g"])
    /\ AllOk("supplement")
    /\ hist.fanout["report"] = 1

C10_FailedHasError ==
    Status = "failed" => Val(get_task).error_message \notin {Nil, ""}

\* C11: once the status is completed or failed, no later write by any
\* workflow task changes it, the status write analyze_task_phased makes
\* after dispatching the Plan fan-out included.
C11_TerminalStable == [][(Status \in Terminal) => (Status' = Status)]_vars

\* C12: within a run that ends in completed, the stored progress never
\* decreases, under every interleaving of the submitting task with the
\* fan-out tasks and barrier callbacks it dispatches.
C12_ProgressMonotonic == BagIn("completed", statusLog) => ~lowered

\* The submitting task is past its cache lookup.
LookedUp == meta # None /\ main \in {"hit", "dispatched", "done"}

Similar(q1, q2) == AtLeastThreshold(_jaccard_similarity(_tokenize(q1), _tokenize(q2)))

ValidEntry(q) == cacheDoc[Hash(q)] # None /\ cacheMeta[Hash(q)] # None

NoAgentTask == \A g \in Groups, a \in Agents : agentTask[g][a] = "none"

\* The valid cache entries whose query has Jaccard similarity at least 0.80
\* with the submitted one.
ValidSimilar == {q2 \in Queries : Similar(Val(meta).query, q2) /\ ValidEntry(q2)}

\* C13: when the cache holds a valid entry for a query whose token set has
\* Jaccard similarity at least 0.80 with that of the submitted query, the
\* submission stores the document of such an entry as its result, ends
\* completed and runs no agent task, whatever else the cache holds.
C13_SimilarHit ==
    (LookedUp /\ ValidSimilar # {})
        => /\ \E q2 \in ValidSimilar : result = cacheDoc[Hash(q2)]
           /\ NoAgentTask
           /\ (main = "done" => Status = "completed")

\* C14: check_query_cache looks the exact hash up first and on a hit reads no
\* meta entry; on a miss the similarity search reads at most 100 of them.
C14_ExactFirstBoundedScan ==
    LookedUp =>
        /\ hist.reads <= MAX_CACHE_SCAN
        /\ (cacheDoc[Hash(Val(meta).query)] # None
              => hist.reads = 0 /\ result = cacheDoc[Hash(Val(meta).query)])

\* The cache holds more meta entries than the scan may read, and it has read
\* its full allowance.
C14_Witness ==
    /\ LookedUp
    /\ ScanAll > MAX_CACHE_SCAN
    /\ hist.reads = MAX_CACHE_SCAN

\* C15: when the submitted query is, verbatim, the query of an earlier run
\* whose cache entry is still valid, the status a client observes goes from
\* pending to completed with nothing between, no agent or Judge task is
\* enqueued, no payload, guidance or round is written, and the result stored
\* is the cached document.
C15_VerbatimResubmit ==
    [][(meta' # None /\ ValidEntry(Val(meta').query))
         => /\ (Status = pending => Status' \in {pending, "completed"})
            /\ NoAgentTask' /\ queue' = {}
            /\ payload' = payload /\ guidance' = guidance /\ round' = round
            /\ (Status' = "completed"
                  => result' = cacheDoc[Hash(Val(meta').query)])]_vars

\* Agent a's task of group g runs to its return in this step.
Returns(g, a) == agentTask[g][a] = "queued" /\ agentTask'[g][a] = "ok"

\* C16: the Plan payload a Research task reads is the one the agent's Plan
\* task saved, and the Research payload a Report task reads is the one the
\* agent's Research task, first or supplement, saved last: only those tasks
\* write the keys, and none writes them once the reading task is dispatched.
C16_PayloadHandOver ==
    [][\A a \in Agents :
         /\ payload'[a]["plan"] # payload[a]["plan"] => Returns("plan", a)
         /\ payload'[a]["research"] # payload[a]["research"]
               => Returns("research", a) \/ Returns("supplement", a)
         /\ \A g \in {"research", "supplement"} :
               taskRead'[g][a] # taskRead[g][a]
                 => Val(taskRead'[g][a]).plan = Val(payload[a]["plan"])
         /\ taskRead'["report"][a] # taskRead["report"][a]
               => Val(taskRead'["report"][a]).research = Val(payload[a]["research"])
         /\ agentTask["research"][a] # "none"
               => payload'[a]["plan"] = payload[a]["plan"]
         /\ agentTask["report"][a] # "none"
               => payload'[a]["research"] = payload[a]["research"]]_vars

\* A Report task has read the Research payload a supplement task saved over
\* the first one.
C16_Witness ==
    \E a \in Agents :
        /\ taskRead["report"][a] # None
        /\ Val(taskRead["report"][a]).research.by = "supplement"
        /\ taskRead["research"][a] # None

\* The payload is missing or carries no state_dict.
Unusable(p) == p = None \/ ~Val(p).state_dict

\* Agent a's task of group g ends in this step.
Ends(g, a) == agentTask[g][a] = "queued" /\ agentTask'[g][a] # "queued"

\* C17: a Research task that finds no Plan payload, or one without
\* state_dict, fails without calling the agent's research capability and
\* without writing a payload of its own; a Report task does the same about
\* the Research payload.
C17_NoStateDictFails ==
    [][\A a \in Agents :
         /\ \A g \in {"research", "supplement"} :
               (Ends(g, a) /\ Unusable(payload[a]["plan"]))
                 => /\ agentTask'[g][a] = "failed"
                    /\ taskRead'[g][a] = taskRead[g][a]
                    /\ payload' = payload
         /\ (Ends("report", a) /\ Unusable(payload[a]["research"]))
               => /\ agentTask'["report"][a] = "failed"
                  /\ taskRead'["report"][a] = taskRead["report"][a]
                  /\ payload' = payload]_vars

\* A Research task has failed on a Plan payload without state_dict.
C17_Witness ==
    \E a \in Agents :
        /\ agentTask["research"][a] = "failed"
        /\ Unusable(payload[a]["plan"])
        /\ payload[a]["research"] = None

\* The forum entry the barrier callback of a fan-out group begins with.
BarrierNote(g) ==
    IF g = "plan" THEN "phase1_done"
    ELSE IF g = "research" THEN "phase2_done"
    ELSE IF g = "supplement" THEN "phase3_start" ELSE "final_report_start"

BarrierRuns(g) == CopiesIn(Entry("system", BarrierNote(g), ""), forum)

\* C18: for each fan-out group the barrier callback runs exactly once after
\* all three member tasks have finished, whether they succeeded or failed:
\* never twice, and once the workflow is at rest with the three tasks of a
\* group finished, its callback has run.
C18_BarrierAfterAll ==
    \A g \in Groups :
        /\ BarrierRuns(g) <= 1
        /\ (Quiescent /\ \A a \in Agents : Ran(g, a)) => BarrierRuns(g) = 1

\* len() of the selection before any line is left out or cut: the lines
\* that are not skipped, joined.
SelectionLen == JoinedLen(Kept(logs))

\* C19: the summary made with a budget of 2000 characters is at most 2000
\* characters long, and it ends with the truncation sentinel exactly when
\* the selection of log lines exceeded the budget before truncation, the
\* case of ordinary lines dropped to fit the budget included.
C19_SummaryBudget ==
    summary # None =>
        /\ Val(summary).len <= MaxChars
        /\ Val(summary).sentinel <=> SelectionLen > MaxChars

\* The characters of a text, counted word by word.
TextLen(text) ==
    LET upTo[i \in 0..Len(text)] == IF i = 0 THEN 0 ELSE upTo[i - 1] + WordLen(text[i])
    IN  upTo[Len(text)]

\* The query string of the submission answered.
Sent == Val(Val(response).request).query

HasQuery == response # None /\ Val(response).request # None

\* The submission was refused and has left nothing behind.
Rejected ==
    /\ Val(response).status = 400
    /\ meta = None /\ tasksAll = {} /\ tstatus = None /\ result = None
    /\ main = "none" /\ queue = {} /\ NoAgentTask

\* C20 as stated: a submission whose query is empty after trimming, or is
\* longer than 500 characters as submitted, is rejected with 400 and leaves
\* no task record, no entry in the task index and no workflow task.
C20_RejectsAsSubmitted ==
    (HasQuery /\ (TextLen(strip(Sent)) = 0 \/ Sent.pad + TextLen(Sent.text) > MaxQueryLen))
        => Rejected

\* C20: a submission whose query, after trimming, is empty or longer than
\* 500 characters is rejected with 400 and leaves no task record, no entry
\* in the task index and no workflow task.
C20_RejectsTrimmed ==
    (HasQuery /\ (TextLen(strip(Sent)) = 0 \/ TextLen(strip(Sent)) > MaxQueryLen))
        => Rejected

\* A query of 501 characters between whitespace has been refused.
C20_Witness ==
    /\ HasQuery
    /\ Sent.pad > 0 /\ TextLen(strip(Sent)) = MaxQueryLen + 1
    /\ Rejected

\* The note the except handler of a Judge task leaves in the forum.
JudgeFailNote(p) == IF p = "plan" THEN "plan_review_failed" ELSE "research_review_failed"

\* C21: when the Judge's LLM is unreachable for the plan review and for the
\* research review, the task still reaches completed (no agent task or
\* Blackboard operation failing and the renderer not raising), and its forum log
\* holds for each of the two reviews an explicit failure note of the
\* orchestrator, not only an ordinary review entry.
C21_JudgeDownNoted ==
    /\ (Submitted_ /\ hist.faults = 0 /\ finalizer # "raised" /\ ~ENABLED NextLLMDown)
          => BagIn("completed", statusLog)
    /\ \A p \in {"plan", "research"} :
          (BagIn("completed", statusLog) /\ hist.judge[p] >= 1)
              => InForum("orchestrator", JudgeFailNote(p), "")

\* C22: when the final renderer raises, the task ends in failed with the
\* error message, no result document is stored for the task, and no cache
\* entry, document or meta, is written for the query.
C22_RenderFailure ==
    [][(finalizer # "raised" /\ finalizer' = "raised")
         => /\ Status' = "failed"
            /\ Val(tstatus').error # Nil
            /\ result' = None
            /\ cacheVars' = cacheVars]_vars

\* C23: any two accepted submissions receive different task ids, two
\* submissions handled within the same millisecond included, so that the
\* record of a task is never overwritten by the creation of another: it
\* keeps the query it was created for.
C23_DistinctTaskIds ==
    \A c1 \in Clients : issued[c1] # None =>
        /\ \A c2 \in Clients \ {c1} : issued[c2] # issued[c1]
        /\ taskRecords[Val(issued[c1])] = Some(create_task(QueryOf(c1)))

\* C24: in a supplement round the guidance is written under
\* guidance:research before the round counter is incremented, so a Judge run
\* that has got as far as the increment has written its guidance; and both
\* writes are made before any supplement task of the task starts.
C24_GuidanceBeforeRound ==
    [][/\ \A d \in JudgeAnswers, n \in 0..6 :
            (orchestrate_research_lost(d, n) /\ round' > round /\ d.guidance # "")
                => guidance'["research"] = d.guidance
       /\ \A a \in Agents :
            agentTask'["supplement"][a] # "none"
                => /\ round' >= 1
                   /\ guidance'["research"] = Val(hist'.returned["research"]).guidance]_vars

\* The payload keys a fan-out group's tasks write.
KeyOf(g) == IF g = "supplement" THEN "research" ELSE g

\* C25: at any moment at most one worker is executing the task of a given
\* (task_id, agent, phase), hence at most one writer writes a payload key:
\* no two workflows have a Plan task of the same agent running under the
\* same task id, and within a workflow no two tasks writing the same key of
\* an agent are dispatched and unfinished together, the research key in a
\* supplement round included.
C25_OneWorkerPerKey ==
    /\ \A c1 \in Clients, c2 \in Clients, a \in Agents :
          (c1 # c2 /\ planRun[c1][a] = "running" /\ planRun[c2][a] = "running")
              => issued[c1] # issued[c2]
    /\ \A a \in Agents, g1 \in Groups, g2 \in Groups :
          (g1 # g2 /\ agentTask[g1][a] = "queued" /\ agentTask[g2][a] = "queued")
              => KeyOf(g1) # KeyOf(g2)

\* The submission was served by the similarity search: a cached document
\* was returned though the exact key holds none.
SimilarityHit ==
    /\ LookedUp /\ main # "dispatched"
    /\ cacheDoc[Hash(Val(meta).query)] = None
    /\ result # None

SimTo(q) == _jaccard_similarity(_tokenize(Val(meta).query), _tokenize(q))

Cached(q) == cacheMeta[Hash(q)] # None

\* C26: among the scanned meta entries the similarity search selects one of
\* the highest Jaccard similarity, at least 0.80, and among several of that
\* similarity the one created last.  Stated where every meta entry is
\* scanned, against the entries whose document is still stored.
C26_BestMostRecent ==
    (SimilarityHit /\ Cardinality(MetaKeys) + otherMeta <= MAX_CACHE_SCAN)
        => \E q2 \in Queries :
              /\ Cached(q2) /\ result = cacheDoc[Hash(q2)]
              /\ AtLeastThreshold(SimTo(q2))
              /\ \A q3 \in Queries : ValidEntry(q3) =>
                    /\ ~SimGreater(SimTo(q3), SimTo(q2))
                    /\ ~SimGreater(SimTo(q2), SimTo(q3))
                          => Val(cacheMeta[Hash(q3)]).created_at
                                <= Val(cacheMeta[Hash(q2)]).created_at

\* The meta entries whose result document is gone.
Orphans == {q \in Queries : Cached(q) /\ cacheDoc[Hash(q)] = None}

\* C27: a meta entry whose result document is missing is skipped by the
\* similarity search: the entry is not returned and the remaining candidates
\* stay eligible, so a submission with a valid entry of similarity at least
\* 0.80 is served one even when such an orphan is scanned with it.
C27_MissingDocSkipped ==
    (/\ LookedUp
     /\ cacheDoc[Hash(Val(meta).query)] = None
     /\ Cardinality(MetaKeys) + otherMeta <= MAX_CACHE_SCAN
     /\ Orphans # {}
     /\ ValidSimilar # {})
        => /\ main # "dispatched"
           /\ \E q2 \in ValidSimilar : result = cacheDoc[Hash(q2)]

\* No word of the query is a token.
NoTokens(q) == \A w \in Range(q) : WordLen(w) <= 1 \/ w \in stopwords

\* C28: a query whose token set is empty hits the cache only through its
\* exact hash: whatever meta entries exist, the document it is served is the
\* one stored under its own key, and without one it is a miss.
C28_EmptyTokensExactOnly ==
    (LookedUp /\ NoTokens(Val(meta).query))
        => /\ result # None => result = cacheDoc[Hash(Val(meta).query)]
           /\ cacheDoc[Hash(Val(meta).query)] = None => ~NoAgentTask

\* A query without tokens missed though complete entries of other queries,
\* one of them sharing its stop words, were there to scan.
C28_Witness ==
    /\ LookedUp /\ NoTokens(Val(meta).query)
    /\ cacheDoc[Hash(Val(meta).query)] = None
    /\ ValidEntry(QC) /\ ValidEntry(QA)
    /\ ~NoAgentTask

\* C29: a task of the supplement round is the supplement operation: it reads
\* the agent's Research payload together with the Judge's guidance, fails
\* when that payload has no state_dict, and otherwise writes the Research
\* payload over; it does not start again from the Plan payload.
C29_SupplementFromResearch ==
    [][\A a \in Agents :
         (agentTask["supplement"][a] = "queued" /\ agentTask'["supplement"][a] # "queued")
             => /\ Unusable(payload[a]["research"])
                      => /\ agentTask'["supplement"][a] = "failed"
                         /\ payload'[a] = payload[a]
                /\ agentTask'["supplement"][a] = "ok"
                      => /\ DOMAIN Val(taskRead'["supplement"][a]) = {"research", "guidance"}
                         /\ Val(taskRead'["supplement"][a]).research
                                = Val(payload[a]["research"])
                         /\ Val(taskRead'["supplement"][a]).guidance = guidance["research"]
                         /\ payload'[a]["research"] # None
                         /\ payload'[a]["plan"] = payload[a]["plan"]]_vars

\* max_retries of the tasks that retry (tasks/agents.py).
max_retries == 2

\* C30: a phase task that fails with a transient error is executed again by
\* its retry policy, at most twice, and its phase is reported failed only
\* when the retries are exhausted: the execution that marks a task failed is
\* at least the third that raised in the run.
C30_RetriedBeforeFailed ==
    [][\A a \in Agents :
         /\ query_plan_raise(a) => hist'.faults > max_retries
         /\ \A g \in {"research", "supplement"} :
               query_research_raise(g, a) => hist'.faults > max_retries
         /\ query_report_raise(a) => hist'.faults > max_retries]_vars

\* The plan Judge hands a result to the next link of its chain in this step.
PlanJudgeReturns ==
    hist.returned["plan"] = None /\ hist'.returned["plan"] # None

\* C31: when the plan Judge returns, trigger_phase2_research is queued with
\* its result and launches the Research fan-out whatever the decision, and
\* no Research task is dispatched unless the guidance returned, when it is
\* not empty, is the one stored under guidance:plan.
C31_ResearchAfterPlanReview ==
    [][/\ PlanJudgeReturns
            => \E m \in queue' :
                  /\ m.name = "trigger_phase2_research"
                  /\ m.decision = Val(hist'.returned["plan"]).decision
                  /\ m.guidance = Val(hist'.returned["plan"]).guidance
       /\ \A m \in queue :
             (m.name = "trigger_phase2_research" /\ m \notin queue')
                 => \A a \in Agents : agentTask'["research"][a] = "queued"
       /\ \A a \in Agents :
             (/\ agentTask'["research"][a] # "none"
              /\ hist'.returned["plan"] # None
              /\ Val(hist'.returned["plan"]).guidance # "")
                 => guidance'["plan"] = Val(hist'.returned["plan"]).guidance]_vars

\* The plan Judge asked for a revision with guidance, and the Research tasks
\* were dispatched all the same.
C31_Witness ==
    /\ hist.returned["plan"] # None
    /\ Val(hist.returned["plan"]).decision = "revise"
    /\ Val(hist.returned["plan"]).guidance # ""
    /\ \A a \in Agents : agentTask["research"][a] # "none"

\* The primary call raised with a content-policy or inappropriate-content
\* message.
PolicyFailure(env) == env.api_key /\ env.primary.kind = "policy_error"

\* C32: in one Judge invocation the fallback model is called exactly once
\* when the primary call fails with a content-policy signal and a fallback
\* is configured, and never after any other primary outcome; when the
\* fallback fails too or returns no message, the decision is approve with
\* empty guidance.
C32_FallbackOnce ==
    hist.llm # None =>
        LET c == Val(hist.llm) IN
        /\ c.deepseek_calls = IF PolicyFailure(c.env) /\ c.env.deepseek_key THEN 1 ELSE 0
        /\ (PolicyFailure(c.env) /\ c.env.deepseek_key /\ c.env.deepseek.kind # "reply")
              => c.ret = Approve

\* The primary call met the content policy and the fallback, configured,
\* answered with a revision and guidance, which is what the Judge returned.
C32_Witness ==
    /\ hist.llm # None
    /\ PolicyFailure(Val(hist.llm).env) /\ Val(hist.llm).env.deepseek_key
    /\ Val(hist.llm).env.deepseek.kind = "reply"
    /\ Val(hist.llm).deepseek_calls = 1
    /\ Val(hist.llm).ret = [decision |-> "revise", guidance |-> "g"]

\* The guidance the Judge returned from its review of phase p, "" when it
\* has not returned.
Reviewed(p) == IF hist.returned[p] = None THEN "" ELSE Val(hist.returned[p]).guidance

\* C33: guidance the Judge writes after reviewing a phase is read by every
\* agent on its next execution: the guidance of the plan review by each
\* agent's Research execution, the guidance of the research review by each
\* agent's supplement execution.
C33_GuidanceDelivered ==
    \A a \in Agents :
        /\ (taskRead["research"][a] # None /\ Reviewed("plan") # "")
              => Val(taskRead["research"][a]).guidance = Reviewed("plan")
        /\ (taskRead["supplement"][a] # None /\ Reviewed("research") # "")
              => Val(taskRead["supplement"][a]).guidance = Reviewed("research")

\* C34: a status update is a compose-merge: the fields of the status record
\* it does not name keep their values.  No update takes a result or an error
\* away, so has_result, once set, stays set, and an error, once recorded,
\* is replaced only by another error.
C34_StatusMerge ==
    [][(tstatus # None /\ tstatus' # tstatus)
          => /\ Val(tstatus).has_result => Val(tstatus').has_result
             /\ Val(tstatus).error # Nil => Val(tstatus').error # Nil]_vars

\* C35: in every reachable state stats() counts each indexed task under its
\* current status, the phase statuses included, so the counts of the states
\* add up to the number of indexed tasks.
C35_StatsAddUp ==
    LET stats == get_task_count
    IN  stats.counts["pending"] + stats.counts["running"]
          + stats.counts["generating_report"] + stats.counts["completed"]
          + stats.counts["failed"] = stats.total

\* What get(task_id) must show for the stored submission and status records.
MergedView(view) ==
    /\ view.query = Val(meta).query
    /\ tstatus = None
          => /\ view.status = "pending" /\ view.progress = 0
             /\ view.error_message = Nil /\ ~view.completed
    /\ tstatus # None
          => /\ view.status = Val(tstatus).status
             /\ view.progress = Val(tstatus).progress
             /\ Val(tstatus).error # Nil => view.error_message = Val(tstatus).error
             /\ view.completed <=> Val(tstatus).status = "completed"

\* C36: get(task_id) returns the submission record overlaid with the latest
\* status record: status and progress come from the last status write, the
\* error and the completion mark are filled from it, without any status
\* write the view is (pending, 0), and no status write alters the
\* submission record, whose query the view shows.
C36_MergedView ==
    [][/\ meta # None => meta' = meta
       /\ meta' # None => (get_task # None /\ MergedView(Val(get_task)))']_vars

\* A run of the whole workflow seen through get(task_id) at its end:
\* completed, progress 100, the query as submitted.
C36_Witness ==
    /\ meta # None /\ tstatus # None
    /\ Val(tstatus).status = "completed"
    /\ Val(get_task).status = "completed" /\ Val(get_task).progress = 100
    /\ Val(get_task).completed /\ Val(get_task).query = QA
    /\ ~NoAgentTask

\* C37: the forum log is append-only under any interleaving of its writers:
\* an append leaves every earlier entry where it was and adds its entry, new
\* to the log, at the end, so every appended entry is there exactly once and
\* the log read earlier is a prefix of the log read later.
C37_ForumAppendOnly ==
    [][logs' # logs
          => /\ Len(logs') = Len(logs) + 1
             /\ SubSeq(logs', 1, Len(logs)) = logs
             /\ \A i \in 1..Len(logs) : logs[i] # logs'[Len(logs')]]_vars

\* All the writers have appended, the Judge between two agents.
C37_Witness ==
    /\ Len(logs) = Cardinality(Speakers)
    /\ logs[1].speaker = "query"
    /\ logs[2].speaker = "orchestrator"
    /\ logs[3].speaker = "media"

\* The entries of the log the summary is to list: the important ones, and
\* the remaining ones, without the routine status entries of speakers other
\* than the orchestrator.
Routine(e) == e.skipword /\ e.speaker # "orchestrator"

Important(e) == e.speaker = "orchestrator" \/ e.keyword

ImportantEntries == SelectSeq(logs, LAMBDA e : Important(e) /\ ~Routine(e))

RemainingEntries == SelectSeq(logs, LAMBDA e : ~Important(e) /\ ~Routine(e))

\* The first k remaining entries fit the budget after the important ones,
\* and the next one, if any, does not.
FillsTo(k) ==
    /\ (k > 0 => SumLen(ImportantEntries) + SumLen(SubSeq(RemainingEntries, 1, k)) + k
                    <= MaxChars)
    /\ (k < Len(RemainingEntries)
          => SumLen(ImportantEntries) + SumLen(SubSeq(RemainingEntries, 1, k + 1)) + k + 1
                > MaxChars)

\* ls is the important entries in log order, then the remaining entries in
\* log order as long as they fit.
ImportantThenRest(ls) ==
    \E k \in 0..Len(RemainingEntries) :
        /\ ls = ImportantEntries \o SubSeq(RemainingEntries, 1, k)
        /\ FillsTo(k)

\* The lines of ls that are whole within the first `room` characters of
\* their join.
RECURSIVE WholeLines(_, _)
WholeLines(ls, room) ==
    IF ls = <<>> \/ Head(ls).len > room THEN <<>>
    ELSE <<Head(ls)>> \o WholeLines(Tail(ls), room - Head(ls).len - 1)

\* The entries the text of the summary shows in full.
Shown ==
    IF Val(summary).sentinel
    THEN WholeLines(Val(summary).lines, MaxChars - CutBack)
    ELSE Val(summary).lines

\* C38 as stated: the summary lists first every important entry in log
\* order, then the remaining entries in log order as long as they fit the
\* budget, routine status entries only when spoken by the orchestrator.
C38_ListsImportantFirst == summary # None => ImportantThenRest(Shown)

\* C38, amended: the lines selected for the summary are every important
\* entry in log order, then the remaining entries in log order as long as
\* they fit the budget, routine status entries only when spoken by the
\* orchestrator; the text shows them all unless it was cut to the budget,
\* and then it shows the first of them.
C38_SelectsImportantFirst ==
    summary # None =>
        /\ ImportantThenRest(Val(summary).lines)
        /\ \E n \in 0..Len(Val(summary).lines) : Shown = SubSeq(Val(summary).lines, 1, n)
        /\ ~Val(summary).sentinel => Shown = Val(summary).lines

\* An important entry that came second is listed first, the ordinary entry
\* before it follows, and a routine entry of an agent is left out.
C38_Witness ==
    /\ summary # None /\ Len(logs) = 3
    /\ ~Important(logs[1]) /\ ~Routine(logs[1])
    /\ logs[2].speaker = "orchestrator" /\ logs[2].skipword
    /\ Routine(logs[3])
    /\ Val(summary).lines = <<logs[2], logs[1]>>
    /\ ~Val(summary).sentinel

C40_FailedWritesNoPayload ==
    [][\A g \in Groups, a \in Agents :
          (Ends(g, a) /\ agentTask'[g][a] = "failed")
              => (payload' = payload /\ guidance' = guidance /\ round' = round)]_vars

====
